---- MODULE Spec2Model ----
(***************************************************************************)
(* Model of src/node/src/utils/script.py: the block extractor that reads   *)
(* Logger.js, scans its lines for a start marker and a later end marker    *)
(* and prints the lines in between.                                        *)
(*                                                                         *)
(* A text is a sequence of characters; a character is a one-character      *)
(* string.  Control characters TLA+ strings cannot hold are named: "VT"    *)
(* (\x0b), "FS" (\x1c), "GS" (\x1d), "RS" (\x1e), "US" (\x1f), "NEL"       *)
(* (\x85), "LS" (U+2028), "PS" (U+2029).                                 *)
(***************************************************************************)
EXTENDS Integers, Sequences, FiniteSets

\* Largest number of chunks a modelled Logger.js is made of.
MaxChunks == 3

\* Python's None for the two indices (script.py:4-5).  The program's own
\* indices come from enumerate and are never negative.
None == -1

\* 'static async writeLog' (script.py:7)
StartMarker ==
  <<"s","t","a","t","i","c"," ","a","s","y","n","c"," ","w","r","i","t","e","L","o","g">>

\* 'static async writeLogs' (script.py:9)
EndPrefix ==
  <<"s","t","a","t","i","c"," ","a","s","y","n","c"," ","w","r","i","t","e","L","o","g","s">>

-----------------------------------------------------------------------------
(* Pure functions of the Python runtime the script calls. *)

\* The characters str.isspace() accepts, which str.strip() removes.
Whitespace ==
  {" ", "\t", "\n", "\r", "\f", "VT", "FS", "GS", "RS", "US", "NEL", "LS", "PS"}

\* The single characters str.splitlines() treats as a line boundary
\* ("\r" followed by "\n" is one boundary).
LineBoundaries ==
  {"\n", "\r", "\f", "VT", "FS", "GS", "RS", "NEL", "LS", "PS"}

\* `sub in s` of Python strings.
Contains(sub, s) ==
  \E k \in 0..(Len(s) - Len(sub)) : SubSeq(s, k + 1, k + Len(sub)) = sub

\* s.startswith(p)
StartsWith(s, p) ==
  /\ Len(s) >= Len(p)
  /\ SubSeq(s, 1, Len(p)) = p

\* A wrong strip: the line is left as it is.
StripNothing(s) == s

\* s.strip(): leading and trailing whitespace removed.
Strip(s) ==
  LET keep == {k \in 1..Len(s) : s[k] \notin Whitespace}
  IN  IF keep = {} THEN <<>>
      ELSE LET lo == CHOOSE k \in keep : \A m \in keep : k <= m
               hi == CHOOSE k \in keep : \A m \in keep : k >= m
           IN  SubSeq(s, lo, hi)

\* The positions of the characters of s, in increasing order.
Positions(s) == [k \in 1..Len(s) |-> k]

\* The characters at the given positions of a text, universal newlines
\* applied: a "\r" is read as "\n".
Translated(raw, kept) ==
  [j \in 1..Len(kept) |-> IF raw[kept[j]] = "\r" THEN "\n" ELSE raw[kept[j]]]

\* Path.read_text() opens the file in text mode with universal newlines:
\* "\r\n" and a lone "\r" reach the program as "\n".
ReadText(raw) ==
  LET Kept(k) == ~ (raw[k] = "\n" /\ k > 1 /\ raw[k - 1] = "\r")
  IN  Translated(raw, SelectSeq(Positions(raw), Kept))

\* The pieces of s that the line boundaries at the positions cuts leave.
Pieces(s, cuts) ==
  LET after(k) == IF s[k] = "\r" /\ k < Len(s) /\ s[k + 1] = "\n" THEN k + 2 ELSE k + 1
      n        == Len(cuts)
      from(j)  == IF j = 1 THEN 1 ELSE after(cuts[j - 1])
      whole    == [j \in 1..n |-> SubSeq(s, from(j), cuts[j] - 1)]
      rest     == SubSeq(s, from(n + 1), Len(s))
  IN  IF rest = <<>> THEN whole ELSE Append(whole, rest)

\* str.splitlines(): cut at every line boundary, boundaries dropped, no
\* empty last line after a final boundary.
SplitLines(s) ==
  LET Cut(k) == /\ s[k] \in LineBoundaries
                /\ ~ (s[k] = "\n" /\ k > 1 /\ s[k - 1] = "\r")
  IN  Pieces(s, SelectSeq(Positions(s), Cut))

\* '\n'.join(ls)
RECURSIVE JoinLF(_)
JoinLF(ls) ==
  IF ls = <<>> THEN <<>>
  ELSE IF Len(ls) = 1 THEN ls[1]
  ELSE ls[1] \o <<"\n">> \o JoinLF(Tail(ls))

\* One index of a slice, as Python normalises it for a sequence of n items.
SliceIndex(idx, n) ==
  IF idx < 0 THEN (IF idx + n < 0 THEN 0 ELSE idx + n)
  ELSE IF idx > n THEN n ELSE idx

\* A wrong slice: the item at index b is taken too.
SliceInclusive(ls, a, b) ==
  LET lo == IF a = None THEN 0 ELSE SliceIndex(a, Len(ls))
      hi == IF b = None THEN Len(ls) ELSE SliceIndex(b + 1, Len(ls))
  IN  SubSeq(ls, lo + 1, hi)

\* ls[a:b] with zero-based a (inclusive) and b (exclusive); None as a is the
\* beginning and None as b is the end.
Slice(ls, a, b) ==
  LET lo == IF a = None THEN 0 ELSE SliceIndex(a, Len(ls))
      hi == IF b = None THEN Len(ls) ELSE SliceIndex(b, Len(ls))
  IN  SubSeq(ls, lo + 1, hi)

-----------------------------------------------------------------------------
(* The files the program is run on. *)

Chunks ==
  { <<>>,
    <<"x">>,
    StartMarker \o <<" ", "X">>,
    <<" ", "\t">> \o EndPrefix \o <<"(">>,
    <<"x", " ">> \o EndPrefix,
    EndPrefix,
    <<"a", "\f", "b">>,
    <<"a", "\r", "b">> }

ChunkSeqs == UNION { [1..n -> Chunks] : n \in 0..MaxChunks }

\* Logger.js as the file system holds it: missing, unreadable, or a text.
Files ==
  { [err |-> e, text |-> <<>>] : e \in {"FileNotFoundError", "PermissionError"} }
    \cup { [err |-> "none", text |-> JoinLF(cs)] : cs \in ChunkSeqs }

-----------------------------------------------------------------------------
VARIABLES file, pc, lines, start, end, i, stdout, exc

vars == <<file, pc, lines, start, end, i, stdout, exc>>

Init ==
  /\ file \in Files
  /\ pc = "read"
  /\ lines = <<>>
  /\ start = None
  /\ end = None
  /\ i = 0
  /\ stdout = <<>>
  /\ exc = "none"

\* A read that swallows the error and goes on with no lines.
ReadFailSwallowed ==
  /\ pc = "read"
  /\ file.err # "none"
  /\ lines' = <<>>
  /\ pc' = "scan"
  /\ UNCHANGED <<file, start, end, i, stdout, exc>>

\* script.py:3, read_text() raises: the exception is not caught.
ReadFail ==
  /\ pc = "read"
  /\ file.err # "none"
  /\ exc' = file.err
  /\ pc' = "fatal"
  /\ UNCHANGED <<file, lines, start, end, i, stdout>>

\* script.py:3-5
ReadOk ==
  /\ pc = "read"
  /\ file.err = "none"
  /\ lines' = SplitLines(ReadText(file.text))
  /\ start' = None
  /\ end' = None
  /\ i' = 0
  /\ pc' = "scan"
  /\ UNCHANGED <<file, stdout, exc>>

\* The start condition without its `start is None` part.
StartBranchAnyTime(line, st) == Contains(StartMarker, line)

\* script.py:7, the condition of the if
StartBranch(line, st) == Contains(StartMarker, line) /\ st = None

\* script.py:9, the condition of the elif
EndBranch(line, st) == st # None /\ StartsWith(Strip(line), EndPrefix)

\* A start branch that falls through to the end test (if ... if, not elif).
ScanStartFallThrough ==
  /\ pc = "scan"
  /\ i < Len(lines)
  /\ StartBranch(lines[i + 1], start)
  /\ start' = i
  /\ IF EndBranch(lines[i + 1], i)
       THEN end' = i /\ pc' = "after" /\ i' = i
       ELSE end' = end /\ pc' = "scan" /\ i' = i + 1
  /\ UNCHANGED <<file, lines, stdout, exc>>

\* script.py:6-8
ScanStart ==
  /\ pc = "scan"
  /\ i < Len(lines)
  /\ StartBranch(lines[i + 1], start)
  /\ start' = i
  /\ i' = i + 1
  /\ UNCHANGED <<file, pc, lines, end, stdout, exc>>

\* An end branch that records the offset from the start line.
ScanEndRelative ==
  /\ pc = "scan"
  /\ i < Len(lines)
  /\ ~ StartBranch(lines[i + 1], start)
  /\ EndBranch(lines[i + 1], start)
  /\ end' = i - start
  /\ pc' = "after"
  /\ UNCHANGED <<file, lines, start, i, stdout, exc>>

\* An end branch without the break.
ScanEndNoBreak ==
  /\ pc = "scan"
  /\ i < Len(lines)
  /\ ~ StartBranch(lines[i + 1], start)
  /\ EndBranch(lines[i + 1], start)
  /\ end' = i
  /\ i' = i + 1
  /\ UNCHANGED <<file, pc, lines, start, stdout, exc>>

\* script.py:6, 9-11
ScanEnd ==
  /\ pc = "scan"
  /\ i < Len(lines)
  /\ ~ StartBranch(lines[i + 1], start)
  /\ EndBranch(lines[i + 1], start)
  /\ end' = i
  /\ pc' = "after"
  /\ UNCHANGED <<file, lines, start, i, stdout, exc>>

\* script.py:6, neither branch taken
ScanSkip ==
  /\ pc = "scan"
  /\ i < Len(lines)
  /\ ~ StartBranch(lines[i + 1], start)
  /\ ~ EndBranch(lines[i + 1], start)
  /\ i' = i + 1
  /\ UNCHANGED <<file, pc, lines, start, end, stdout, exc>>

\* script.py:6, the loop runs out of lines
ScanExhausted ==
  /\ pc = "scan"
  /\ i = Len(lines)
  /\ pc' = "after"
  /\ UNCHANGED <<file, lines, start, end, i, stdout, exc>>

\* A default end that is the last index, not the length.
DefaultEndLastIndex ==
  /\ pc = "after"
  /\ end' = IF end = None THEN Len(lines) - 1 ELSE end
  /\ pc' = "print"
  /\ UNCHANGED <<file, lines, start, i, stdout, exc>>

\* script.py:12-13
DefaultEnd ==
  /\ pc = "after"
  /\ end' = IF end = None THEN Len(lines) ELSE end
  /\ pc' = "print"
  /\ UNCHANGED <<file, lines, start, i, stdout, exc>>

\* script.py:14; print ends what it writes with a line feed.
PrintBlock ==
  /\ pc = "print"
  /\ stdout' = Append(stdout, JoinLF(Slice(lines, start, end)) \o <<"\n">>)
  /\ pc' = "done"
  /\ UNCHANGED <<file, lines, start, end, i, exc>>

Next ==
  \/ ReadFail
  \/ ReadOk
  \/ ScanStart
  \/ ScanEnd
  \/ ScanSkip
  \/ ScanExhausted
  \/ DefaultEnd
  \/ PrintBlock

Spec == Init /\ [][Next]_vars

-----------------------------------------------------------------------------
(* What the properties speak of, stated without the program's own helpers. *)

\* The line, after any leading whitespace, begins with the end prefix.
TrimmedStartsWithEnd(line) ==
  \E n \in 0..(Len(line) - Len(EndPrefix)) :
     /\ \A k \in 1..n : line[k] \in Whitespace
     /\ SubSeq(line, n + 1, n + Len(EndPrefix)) = EndPrefix

\* The end prefix comes after at least one whitespace character and nothing else.
LeadingWsThenEnd(line) ==
  \E n \in 1..(Len(line) - Len(EndPrefix)) :
     /\ \A k \in 1..n : line[k] \in Whitespace
     /\ SubSeq(line, n + 1, n + Len(EndPrefix)) = EndPrefix

\* The end prefix occurs in the line, but only after a non-whitespace character.
EndAfterNonWs(line) ==
  /\ Contains(EndPrefix, line)
  /\ ~ TrimmedStartsWithEnd(line)

\* Zero-based positions of the lines that contain the start substring.
StartLines == {k \in 0..(Len(lines) - 1) : Contains(StartMarker, lines[k + 1])}

FirstStart == CHOOSE k \in StartLines : \A m \in StartLines : k <= m

\* Zero-based positions, after the first start line, of the end-prefix lines.
EndLinesAfter ==
  {k \in (FirstStart + 1)..(Len(lines) - 1) : TrimmedStartsWithEnd(lines[k + 1])}

FirstEndAfter == CHOOSE k \in EndLinesAfter : \A m \in EndLinesAfter : k <= m

\* What print writes for the zero-based lines a (inclusive) to b (exclusive).
Printed(a, b) == JoinLF(SubSeq(lines, a + 1, b)) \o <<"\n">>

\* The End Index a slice would use: the number of lines while still unset.
EffectiveEnd == IF end = None THEN Len(lines) ELSE end

\* The lines, cut at line feeds only (a final line feed ends the last line).
SplitAtLF(s) ==
  LET IsLF(k) == s[k] = "\n"
      cuts    == SelectSeq(Positions(s), IsLF)
      n       == Len(cuts)
      from(j) == IF j = 1 THEN 1 ELSE cuts[j - 1] + 1
      whole   == [j \in 1..n |-> SubSeq(s, from(j), cuts[j] - 1)]
      rest    == SubSeq(s, from(n + 1), Len(s))
  IN  IF rest = <<>> THEN whole ELSE Append(whole, rest)

-----------------------------------------------------------------------------
\* C1: when some line contains the start substring and a strictly later line
\* has trimmed content starting with the end prefix, the output is exactly
\* the lines from the first start line up to the line before the first such
\* end line, in order and unchanged.
C1_BlockBetweenMarkers ==
  (pc = "done" /\ StartLines # {} /\ EndLinesAfter # {})
    => stdout = << Printed(FirstStart, FirstEndAfter) >>

C1_Witness ==
  /\ pc = "done"
  /\ StartLines # {}
  /\ EndLinesAfter # {}
  /\ FirstStart > 0
  /\ stdout = << Printed(FirstStart, FirstEndAfter) >>

\* C2: when no line contains the start substring the program raises an error
\* and prints nothing; stated for the files that have a line to print.
C2_NoStartRaises ==
  (pc \in {"done", "fatal"} /\ file.err = "none" /\ lines # <<>> /\ StartLines = {})
    => (exc # "none" /\ stdout = <<>>)

\* C3: when a start line is found and no later line is an end-prefix line,
\* End Index becomes the number of lines and the output is every line from
\* the start line to the last line.
C3_NoEndRunsToLastLine ==
  (pc = "done" /\ StartLines # {} /\ EndLinesAfter = {})
    => /\ end = Len(lines)
       /\ stdout = << Printed(FirstStart, Len(lines)) >>

C3_Witness ==
  /\ pc = "done"
  /\ StartLines # {}
  /\ EndLinesAfter = {}
  /\ FirstStart + 1 < Len(lines)
  /\ end = Len(lines)

\* C4: Start Index is assigned at most once: it is set at the first line
\* containing the start substring, no later step changes it, and the output
\* begins at that line however many lines contain the substring.
C4_StartAssignedOnce ==
  /\ [][start # None => start' = start]_vars
  /\ [](start # None => (StartLines # {} /\ start = FirstStart))
  /\ []((pc = "done" /\ StartLines # {}) => stdout = << Printed(FirstStart, end) >>)

C4_Witness ==
  /\ pc = "done"
  /\ Cardinality(StartLines) >= 2
  /\ start = FirstStart
  /\ \E k \in StartLines : k > start /\ k < end

\* C5: the start is matched by the marker anywhere in the line, the end only
\* by the end prefix at the beginning of the trimmed line: a later line with
\* whitespace before the end prefix ends the block, a later line with
\* non-whitespace before it does not.
C5_TwoMatchingRules ==
  pc = "done" =>
    /\ \A k \in StartLines : start # None /\ start <= k
    /\ \A k \in (start + 1)..(Len(lines) - 1) :
         (start # None /\ LeadingWsThenEnd(lines[k + 1])) => end <= k
    /\ \A k \in (start + 1)..(Len(lines) - 1) :
         (start # None /\ EndAfterNonWs(lines[k + 1])) => end # k

C5_Witness ==
  /\ pc = "done"
  /\ start # None
  /\ ~ StartsWith(lines[start + 1], StartMarker)
  /\ end < Len(lines)
  /\ LeadingWsThenEnd(lines[end + 1])
  /\ \E k \in (start + 1)..(end - 1) : EndAfterNonWs(lines[k + 1])

\* C6: once Start Index is set, Start Index <= End Index <= number of lines,
\* End Index counting as the number of lines while unset.
C6_IndexOrder ==
  start # None => (start <= EffectiveEnd /\ EffectiveEnd <= Len(lines))

C6_Witness ==
  /\ pc = "done"
  /\ start > 0
  /\ end < Len(lines)
  /\ start < end

\* C7: when Logger.js is missing or unreadable the program ends in a fatal
\* error before the scan starts and writes nothing; whatever is written is
\* written after a complete read.
C7_ReadErrorIsFatal ==
  /\ file.err # "none" =>
       /\ pc \in {"read", "fatal"}
       /\ stdout = <<>>
       /\ lines = <<>> /\ start = None /\ end = None /\ i = 0
       /\ pc = "fatal" => exc = file.err
  /\ stdout # <<>> =>
       /\ file.err = "none"
       /\ exc = "none"
       /\ lines = SplitLines(ReadText(file.text))

C7_Witness ==
  /\ pc = "fatal"
  /\ file.err = "FileNotFoundError"
  /\ exc = "FileNotFoundError"
  /\ stdout = <<>>

\* C8: the lines the program scans are the file's text cut at line feeds and
\* nowhere else.
C8_SplitOnLineFeedOnly ==
  (pc # "read" /\ file.err = "none") => lines = SplitAtLF(file.text)

\* The program has ended.
Terminated == pc \in {"done", "fatal"}

\* A bound on the steps the program has left.
StepsLeft ==
  CASE pc = "read"  -> Len(file.text) + 5
    [] pc = "scan"  -> (Len(lines) - i) + 3
    [] pc = "after" -> 2
    [] pc = "print" -> 1
    [] OTHER        -> 0

\* C9: the scan stops at the first end match (once End Index is set no line
\* is examined and neither index changes), it takes at most one step per
\* line, and the scan ends (every step brings the program nearer to its end
\* and a scan that has not ended can take a step), after which the output
\* is written exactly once.
C9_StopsAtFirstEnd ==
  /\ [][end # None => (i' = i /\ start' = start /\ end' = end)]_vars
  /\ [][i' = i \/ (i' = i + 1 /\ i < Len(lines))]_vars
  /\ [][StepsLeft' < StepsLeft]_vars
  /\ [](StepsLeft >= 0)
  /\ [](pc # "read" => (Terminated \/ ENABLED Next))
  /\ [](Len(stdout) <= 1)
  /\ [](pc = "done" => Len(stdout) = 1)

C9_Witness ==
  /\ pc = "done"
  /\ start # None
  /\ i = end
  /\ \E k \in (end + 1)..(Len(lines) - 1) : TrimmedStartsWithEnd(lines[k + 1])

\* C10: whenever a start line is found End Index is greater than Start
\* Index, the block is not empty and its first line contains the start
\* substring, also when the first start line is itself an end-prefix line;
\* no line of the block but the first is an end-prefix line.
C10_BlockNotEmpty ==
  /\ (start # None /\ end # None) => start < end
  /\ (pc \in {"print", "done"} /\ start # None) =>
       /\ start < end
       /\ Contains(StartMarker, lines[start + 1])
       /\ \A k \in (start + 1)..(end - 1) : ~ TrimmedStartsWithEnd(lines[k + 1])
  /\ (pc = "done" /\ StartLines # {}) =>
       /\ start = FirstStart
       /\ Slice(lines, start, end) # <<>>
       /\ stdout = << Printed(start, end) >>

C10_Witness ==
  /\ pc = "done"
  /\ start # None
  /\ TrimmedStartsWithEnd(lines[start + 1])
  /\ end < Len(lines)
  /\ start < end

====
